---------------------------- MODULE Spec2Model ----------------------------
(***************************************************************************)
(* A model of the research-assistant chat agent: the session coordinator   *)
(* of agent.py (initialize_agent, get_response, get_response_async and the *)
(* module globals agent, mcp_client, loop, memory) and the front-end       *)
(* handlers of app.py (respond, clear_chat).                               *)
(*                                                                         *)
(* The compiled LangGraph agent is driven through agent.astream: one       *)
(* action per streamed event (a model step or a tools step).  The graph    *)
(* loads the thread's checkpoint from the MemorySaver when the stream      *)
(* starts, appends the input messages, and saves the thread's full message *)
(* list after the input and after every step.                              *)
(*                                                                         *)
(* The research server of mcp-Research/src/server.py is modelled on its    *)
(* own: the variable server follows one invocation of                      *)
(* retrieve_related_papers, paper_to_poster or paper_to_podcast through    *)
(* its steps (ServerSpec).                                                 *)
(***************************************************************************)
EXTENDS Integers, Sequences, FiniteSets, TLC

\* ------------------------------------------------------------- bounds
\* concurrent front-end workers that may be inside get_response at once
MaxCalls == 2
\* respond / get_response calls the front-end makes in one behaviour
MaxTurns == 2
\* thread ids uuid4 may mint in one behaviour
MaxThreads == 2
\* capability invocations the model requests in one behaviour
MaxToolCalls == 2
\* the most records a response of the scholar search service holds
MaxOrganic == 3

VARIABLES
    agent,        \* agent.py global `agent`: None or the built agent
    mcp_client,   \* agent.py global `mcp_client`: "None" or "client"
    loop,         \* agent.py global `loop`: "None" or an event loop
    servers,      \* tools.py MCP_SERVERS: the configured provider names
    store,        \* agent.py global `memory`: thread id -> stored messages
    sys_stderr,   \* the process-wide sys.stderr: "orig" or a call's StringIO
    chatbot,      \* app.py gr.Chatbot value: the display history
    thread_state, \* app.py gr.State thread_id: 0 is the empty string
    nextId,       \* the next value uuid.uuid4() yields
    calls,        \* worker slot -> the get_response call it is running
    turns,        \* respond / get_response calls made so far
    toolCalls,    \* invocation requests the model has made so far
    inits,        \* whether app.py's __main__ has called initialize_agent
    init_result,  \* what the last initialize_agent call returned
    produced,     \* thread id -> the messages the turns on it produced
    server        \* server.py: the capability function the server is running

\* the state of the agent process (agent.py, app.py)
agentVars == <<agent, mcp_client, loop, servers, store, sys_stderr, chatbot,
               thread_state, nextId, calls, turns, toolCalls, inits,
               init_result, produced>>

vars == <<agent, mcp_client, loop, servers, store, sys_stderr, chatbot,
          thread_state, nextId, calls, turns, toolCalls, inits,
          init_result, produced, server>>

Slots == 1..MaxCalls
\* a thread id an API caller supplies itself (not minted by the front-end)
ApiThread == -1
ThreadIds == {ApiThread} \cup (1..MaxThreads)

\* ------------------------------------------------------------- values
NotInitialized == "Error: Agent not initialized"
NoResponse == "No response generated"
ErrorText(e) == "Error: " \o e

Text(s) == [kind |-> "text", val |-> s]
NonText(s) == [kind |-> "nontext", val |-> s]
Raised(e) == [kind |-> "raised", val |-> e]
NoResult == [kind |-> "none", val |-> ""]

\* a stored message; th is the thread under which it was first appended,
\* tc the invocation request id it carries (assistant) or answers (tool)
Msg(r, c, t, k) == [role |-> r, content |-> c, th |-> t, tc |-> k]
\* a display-history entry; dict is FALSE for an entry that is no mapping
Entry(r, c, t) == [dict |-> TRUE, role |-> r, content |-> c, th |-> t]
BadEntry == [dict |-> FALSE, role |-> "", content |-> "", th |-> 0]
\* a history argument; list is FALSE for a value that is not iterable
History(items) == [list |-> TRUE, items |-> items]
NotAList == [list |-> FALSE, items |-> <<>>]


\* ------------------------------------------------------ configuration
\* tools.py MCP_SERVERS as shipped, and the empty configuration
ShippedServers == {"blaxel-research", "blaxel-search"}
ServerConfigs == {{}, ShippedServers}
\* what the remote blaxel-search provider may list: its code is not part
\* of the repository, and nothing keeps its names apart from the names of
\* the research server
SearchListings == {{"search"}, {"explain_paper"}}
\* the listings in which no name of one provider is a name of the other
DisjointListings == {{"search"}}
\* the capabilities a provider lists to MultiServerMCPClient.get_tools:
\* the research server lists its four @mcp.tool() functions, the search
\* provider lists sl
ProviderTools(s, sl) ==
    IF s = "blaxel-research"
    THEN {"retrieve_related_papers", "explain_paper", "paper_to_poster",
          "paper_to_podcast"}
    ELSE sl

\* the list build_agent_async hands to create_agent: tools.extend(mcp_tools)
\* keeps every tool every provider listed, each with the provider it is
\* bound to
Registered(srv, sl) ==
    UNION { {[name |-> n, provider |-> p] : n \in ProviderTools(p, sl)} :
            p \in srv }

\* the agent, its tools, and the event loop the build ran on
NoneAgent == [built |-> FALSE, tools |-> {}, on |-> "None"]
BuiltAgent(ts, l) == [built |-> TRUE, tools |-> ts, on |-> l]

\* ------------------------------------------------------ pure helpers
\* the thread that runs app.py's __main__, and the thread on which the
\* front-end runs the handler it gave to worker slot c
MainThread == "main"
Thread(c) == "worker" \o ToString(c)

\* get_or_create_event_loop on thread th: asyncio.get_event_loop() gives
\* the loop that is current for th, and when the thread has none a new
\* loop is made and set as th's current loop
get_or_create_event_loop(th) == "loop@" \o th

\* io.StringIO() made by the call running in slot c
StringIO(c) == "sio" \o ToString(c)

\* whether convert_history_to_messages raises on this history argument:
\* `for msg in history` on a non-iterable, or msg.get on a non-mapping
ConvertRaises(h) ==
    \/ ~h.list
    \/ \E i \in 1..Len(h.items) : ~h.items[i].dict

\* convert_history_to_messages on a list of mappings: user and assistant
\* entries are kept in order, an absent role counts as user, every other
\* role is dropped
RECURSIVE convert_history_to_messages(_)
convert_history_to_messages(items) ==
    IF items = <<>> THEN <<>>
    ELSE LET msg == Head(items)
             role == IF msg.role = "absent" THEN "user" ELSE msg.role
             rest == convert_history_to_messages(Tail(items))
         IN  IF role = "user"
             THEN <<Msg("user", msg.content, msg.th, 0)>> \o rest
             ELSE IF role = "assistant"
             THEN <<Msg("assistant", msg.content, msg.th, 0)>> \o rest
             ELSE rest

\* the input get_response_async hands to agent.astream
StreamInput(message, history, thread_id) ==
    Append(convert_history_to_messages(history.items),
           Msg("user", message, thread_id, 0))

\* the thread's messages once the graph has added the input to the
\* checkpoint it loaded (add_messages appends messages that carry no id)
ContextFor(stored, message, history, thread_id) ==
    stored \o StreamInput(message, history, thread_id)

\* final_response before any event was seen, and structured (list) content
FrNone == "<None>"
Parts == "<parts>"
Truthy(fr) == fr \notin {FrNone, ""}

\* `return final_response if final_response else "No response generated"`
ReturnValue(fr) ==
    IF Truthy(fr)
    THEN (IF fr = Parts THEN NonText(fr) ELSE Text(fr))
    ELSE Text(NoResponse)

\* as Blank, without the strip()
Blank_NoStrip(message) == message = ""

\* app.py `not message.strip()`: the message is empty or only whitespace
Blank(message) == message \in {"", " "}

\* extract_images_from_text(text)[0]: non-text and text without an image
\* URL come back as they are, an image URL is wrapped in markdown
extract_images_from_text(res) ==
    IF res.kind # "text" THEN res.val
    ELSE IF res.val = "http://x/a.png"
    THEN "![Generated Image](http://x/a.png)"
    ELSE res.val

\* the research server while it runs no capability function; steps lists
\* the steps the running function has done, outcome is how the last ended
\* api_key and max_results are what retrieve_related_papers was called
\* with, papers the list it built
ServerIdle ==
    [fn |-> "", pc |-> "idle", env |-> {}, result |-> NoResult,
     steps |-> << >>, outcome |-> "",
     api_key |-> "None", max_results |-> 0, papers |-> << >>]

\* a worker slot that runs no call; kind then tells what the worker ran
\* last: "blank" after a respond that returned at its blank-message check
IdleCall ==
    [pc |-> "idle", kind |-> "", message |-> "", history |-> History(<<>>),
     thread_id |-> 0, ctx |-> <<>>, final_response |-> FrNone,
     step_count |-> 0,
     agentCalls |-> 0, tool_failed |-> FALSE, old_stderr |-> "",
     on |-> "None", result |-> NoResult]

\* ------------------------------------------------------------- Init
Init ==
    /\ agent = NoneAgent
    /\ mcp_client = "None"
    /\ loop = "None"
    /\ servers \in ServerConfigs
    /\ store = [t \in ThreadIds |-> <<>>]
    /\ sys_stderr = "orig"
    /\ chatbot = <<>>
    /\ thread_state = 0
    /\ nextId = 1
    /\ calls = [c \in Slots |-> IdleCall]
    /\ turns = 0
    /\ toolCalls = 0
    /\ inits = FALSE
    /\ init_result = [kind |-> "none", ok |-> FALSE, message |-> ""]
    /\ produced = [t \in ThreadIds |-> <<>>]
    /\ server = ServerIdle


\* ----------------------------------------------------- initialize_agent
\* what can go wrong in build_agent_async, in the order of its steps;
\* mcp_error: get_tools raised because one of the configured providers
\* could not be reached or did not list its capabilities
InitOutcomes(srv) ==
    {"no_api_key", "model_error", "agent_error", "ok"}
        \cup (IF srv = {} THEN {} ELSE {"mcp_error"})

\* as ClientAfter, with the providers contacted before the credential is
\* resolved and the model client constructed
ClientAfter_ProvidersFirst(outcome, srv, client) ==
    IF srv # {} THEN "client" ELSE client

\* build_agent_async assigns the global mcp_client before get_tools runs,
\* after get_api_key and the model constructor have returned
ClientAfter(outcome, srv, client) ==
    IF srv # {} /\ outcome \in {"mcp_error", "agent_error", "ok"}
    THEN "client" ELSE client

\* initialize_agent assigns the global agent only from a build that
\* returned; every exception leaves it as it was
AgentAfter(outcome, srv, sl, old) ==
    IF outcome = "ok"
    THEN BuiltAgent(Registered(srv, sl), get_or_create_event_loop(MainThread))
    ELSE old

\* str(e) of the exception that ended the build: get_api_key's ValueError
\* names the key; the texts of the libraries' exceptions are not in the
\* source and stand as the name of the step that failed
ExceptionText(outcome) ==
    IF outcome = "no_api_key"
    THEN "GOOGLE_API_KEY not found. Please set it in your .env file."
    ELSE outcome

\* as InitReturn, without the except clause: the build's exception leaves
\* initialize_agent
InitReturn_NoExcept(outcome) ==
    IF outcome = "ok"
    THEN [kind |-> "returned", ok |-> TRUE,
          message |-> "Agent initialized successfully!"]
    ELSE [kind |-> "raised", ok |-> FALSE, message |-> outcome]

\* initialize_agent's try/except: the build's exception becomes the
\* (False, text) result
InitReturn(outcome) ==
    IF outcome = "ok"
    THEN [kind |-> "returned", ok |-> TRUE,
          message |-> "Agent initialized successfully!"]
    ELSE [kind |-> "returned", ok |-> FALSE,
          message |-> "Failed to initialize agent: "
                          \o ExceptionText(outcome)]

\* initialize_agent, called once by app.py's __main__ before the UI is
\* launched; build_agent_async swaps sys.stderr around get_tools and
\* restores it in its finally, so the action leaves it as it was
initialize_agent(outcome, sl) ==
    /\ ~inits
    /\ \A c \in Slots : calls[c].pc = "idle"
    /\ outcome \in InitOutcomes(servers)
    /\ sl \in SearchListings
    /\ inits' = TRUE
    /\ loop' = get_or_create_event_loop(MainThread)
    /\ mcp_client' = ClientAfter(outcome, servers, mcp_client)
    /\ agent' = AgentAfter(outcome, servers, sl, agent)
    /\ init_result' = InitReturn(outcome)
    /\ UNCHANGED <<servers, store, sys_stderr, chatbot, thread_state, nextId,
                   calls, turns, toolCalls, produced>>
    /\ UNCHANGED server

\* --------------------------------------------------------- get_response
\* as CallAfterStart, with the history converted before the agent check
CallAfterStart_ConvertFirst(kind, message, history, thread_id) ==
    LET base == [IdleCall EXCEPT !.kind = kind, !.message = message,
                                 !.history = history,
                                 !.thread_id = thread_id]
    IN  IF ConvertRaises(history)
        THEN [base EXCEPT !.pc = "done",
                          !.result = Raised("UnboundLocalError")]
        ELSE IF ~agent.built
        THEN [base EXCEPT !.pc = "done", !.result = Text(NotInitialized)]
        ELSE [base EXCEPT !.pc = "model",
                          !.ctx = ContextFor(store[thread_id], message,
                                             history, thread_id),
                          !.agentCalls = 1,
                          !.old_stderr = sys_stderr]

\* the call's record once get_response_async has reached its first await
\* or returned: the agent check, the history conversion inside the try,
\* the except handler (which reads the locals sys and old_stderr, bound
\* only after the conversion), the sys.stderr swap and the stream start
CallAfterStart(kind, message, history, thread_id) ==
    LET base == [IdleCall EXCEPT !.kind = kind, !.message = message,
                                 !.history = history,
                                 !.thread_id = thread_id]
    IN  IF ~agent.built
        THEN [base EXCEPT !.pc = "done", !.result = Text(NotInitialized)]
        ELSE IF ConvertRaises(history)
        THEN [base EXCEPT !.pc = "done",
                          !.result = Raised("UnboundLocalError")]
        ELSE [base EXCEPT !.pc = "model",
                          !.ctx = ContextFor(store[thread_id], message,
                                             history, thread_id),
                          !.agentCalls = 1,
                          !.old_stderr = sys_stderr]

\* as LoopFor, with the calling thread's loop taken on every call
LoopFor_PerCall(c) == get_or_create_event_loop(Thread(c))

\* the loop get_response drives its coroutine on: the global loop, set
\* from the calling thread only `if loop is None`
LoopFor(c) ==
    IF loop = "None" THEN get_or_create_event_loop(Thread(c)) ELSE loop

\* get_response: set the shared loop if unset, then run get_response_async
\* on it up to its first suspension
get_response(c, kind, message, history, thread_id) ==
    LET call == CallAfterStart(kind, message, history, thread_id)
    IN  /\ loop' = LoopFor(c)
        /\ calls' = [calls EXCEPT ![c] = [call EXCEPT !.on = LoopFor(c)]]
        /\ turns' = turns + 1
        /\ IF call.pc = "model"
           THEN /\ sys_stderr' = StringIO(c)
                /\ store' = [store EXCEPT ![thread_id] = call.ctx]
                /\ produced' = [produced EXCEPT ![thread_id] =
                                  Append(@, Msg("user", message, thread_id, 0))]
           ELSE UNCHANGED <<sys_stderr, store, produced>>

\* the history arguments an API caller passes with thread id t
ApiHistories(t) ==
    { History(<<Entry("system", "s", t), Entry("absent", "q", t),
                Entry("assistant", "answer", t)>>),
      History(<<BadEntry>>),
      NotAList }

\* the worker that takes the next front-end call: the first free one
FreeSlot(c) ==
    /\ calls[c].pc = "idle"
    /\ \A d \in Slots : d < c => calls[d].pc # "idle"

\* a caller other than the chat UI calls get_response directly
ApiCall(c, history) ==
    /\ FreeSlot(c)
    /\ turns < MaxTurns
    /\ history \in ApiHistories(ApiThread)
    /\ get_response(c, "api", "q", history, ApiThread)
    /\ UNCHANGED <<agent, mcp_client, servers, chatbot, thread_state, nextId,
                   toolCalls, inits, init_result>>
    /\ UNCHANGED server

\* the direct call returns to its caller
ApiReturn(c) ==
    /\ calls[c].pc = "done"
    /\ calls[c].kind = "api"
    /\ calls' = [calls EXCEPT ![c] = IdleCall]
    /\ UNCHANGED <<agent, mcp_client, loop, servers, store, sys_stderr,
                   chatbot, thread_state, nextId, turns, toolCalls, inits,
                   init_result, produced>>
    /\ UNCHANGED server


\* ------------------------------------------- the streamed agent steps
\* what a model step can put in the content of a final assistant message
FinalContents == {"answer", "", Parts}

\* as AfterEvent, with final_response taken from the first event only
AfterEvent_FirstWins(call, m) ==
    [call EXCEPT !.ctx = Append(@, m),
                 !.step_count = @ + 1,
                 !.final_response =
                     IF @ = FrNone THEN m.content ELSE @]

\* one streamed event {node: {"messages": [m]}}: the graph has appended m
\* to the thread and saved it; the loop body counts the step and stores
\* m.content as final_response whatever the node is
AfterEvent(call, m) ==
    [call EXCEPT !.ctx = Append(@, m),
                 !.step_count = @ + 1,
                 !.final_response = m.content]

\* the stream is exhausted: the finally restores sys.stderr and the
\* function returns final_response or the fixed text
AfterStreamEnd(call) ==
    [call EXCEPT !.pc = "done", !.result = ReturnValue(call.final_response)]

\* the stream raised e: the finally and the except handler both restore
\* sys.stderr and the function returns the error text
AfterException(call, e) ==
    [call EXCEPT !.pc = "done", !.result = Text(ErrorText(e))]

\* the call's new record, and the checkpoint the graph saves after the
\* step: the thread's stored messages become the run's message list
Saved(c, call) ==
    /\ calls' = [calls EXCEPT ![c] = call]
    /\ store' = [store EXCEPT ![call.thread_id] = call.ctx]
    /\ produced' = [produced EXCEPT ![call.thread_id] =
                      Append(@, call.ctx[Len(call.ctx)])]

\* the model answers with content and no invocation request: the last
\* event of the stream
ModelFinal(c, content) ==
    /\ calls[c].pc = "model"
    /\ content \in FinalContents
    /\ LET m == Msg("assistant", content, calls[c].thread_id, 0)
       IN  Saved(c, AfterStreamEnd(AfterEvent(calls[c], m)))
    /\ sys_stderr' = calls[c].old_stderr
    /\ UNCHANGED <<agent, mcp_client, loop, servers, chatbot, thread_state,
                   nextId, turns, toolCalls, inits, init_result>>
    /\ UNCHANGED server

\* the id of the invocation request the tools step of call c is serving:
\* the one carried by the assistant message the model step just added
PendingRequest(call) == call.ctx[Len(call.ctx)].tc

\* the model requests a capability invocation; the request carries an id
\* no earlier request carried
ModelToolCall(c) ==
    /\ calls[c].pc = "model"
    /\ agent.tools # {}
    /\ toolCalls < MaxToolCalls
    /\ toolCalls' = toolCalls + 1
    /\ LET m == Msg("assistant", "thought", calls[c].thread_id,
                    toolCalls + 1)
       IN  Saved(c, [AfterEvent(calls[c], m) EXCEPT !.pc = "tools"])
    /\ UNCHANGED <<agent, mcp_client, loop, servers, sys_stderr, chatbot,
                   thread_state, nextId, turns, inits, init_result>>
    /\ UNCHANGED server

\* the text of the tool message a tools node makes of a raised exception
ToolErrorText == "Error: rate limited"
\* what a capability returns as its text: a result or an error text
ToolContents == {"result", ToolErrorText}

\* the tools node ran the requested capability and it returned text: a
\* result, or the error text the capability returns instead of raising
ToolResult(c, content) ==
    /\ calls[c].pc = "tools"
    /\ content \in ToolContents
    /\ LET m == Msg("tool", content, calls[c].thread_id,
                    PendingRequest(calls[c]))
       IN  Saved(c, [AfterEvent(calls[c], m) EXCEPT
                       !.pc = "model",
                       !.tool_failed = @ \/ content = ToolErrorText])
    /\ UNCHANGED <<agent, mcp_client, loop, servers, sys_stderr, chatbot,
                   thread_state, nextId, turns, toolCalls, inits, init_result>>
    /\ UNCHANGED server

\* the capability raised (an MCP error result reaches the tools node as a
\* ToolException) and the tools node turned the exception into an error
\* tool message.  get_response_async sets no error handling on the agent:
\* whether the tools node handles the exception or re-raises it (see
\* StreamRaises) is the installed library's default
ToolRaisesHandled(c) ==
    /\ calls[c].pc = "tools"
    /\ LET m == Msg("tool", ToolErrorText, calls[c].thread_id,
                    PendingRequest(calls[c]))
       IN  Saved(c, [AfterEvent(calls[c], m) EXCEPT !.pc = "model",
                                                   !.tool_failed = TRUE])
    /\ UNCHANGED <<agent, mcp_client, loop, servers, sys_stderr, chatbot,
                   thread_state, nextId, turns, toolCalls, inits, init_result>>
    /\ UNCHANGED server

\* as StreamRaises, with the except handler also dropping the global agent
StreamRaises_DropsAgent(c) ==
    /\ calls[c].pc \in {"model", "tools"}
    /\ LET e == IF calls[c].pc = "model" THEN "model call failed"
                ELSE "ToolException"
       IN  calls' = [calls EXCEPT ![c] =
                       [AfterException(calls[c], e) EXCEPT
                          !.tool_failed = @ \/ calls[c].pc = "tools"]]
    /\ sys_stderr' = calls[c].old_stderr
    /\ agent' = NoneAgent
    /\ UNCHANGED <<mcp_client, loop, servers, store, chatbot,
                   thread_state, nextId, turns, toolCalls, inits, init_result,
                   produced>>
    /\ UNCHANGED server

\* an exception leaves agent.astream: the model call failed, or the
\* capability raised and the tools node re-raised it
StreamRaises(c) ==
    /\ calls[c].pc \in {"model", "tools"}
    /\ LET e == IF calls[c].pc = "model" THEN "model call failed"
                ELSE "ToolException"
       IN  calls' = [calls EXCEPT ![c] =
                       [AfterException(calls[c], e) EXCEPT
                          !.tool_failed = @ \/ calls[c].pc = "tools"]]
    /\ sys_stderr' = calls[c].old_stderr
    /\ UNCHANGED <<agent, mcp_client, loop, servers, store, chatbot,
                   thread_state, nextId, turns, toolCalls, inits, init_result,
                   produced>>
    /\ UNCHANGED server

\* the requested capability never returns: get_response_async awaits the
\* next event of agent.astream with no timeout (nor does the capability's
\* own HTTP request in server.py set one), so the call stays suspended
\* with sys.stderr still swapped
ToolNeverReturns(c) ==
    /\ calls[c].pc = "tools"
    /\ calls' = [calls EXCEPT ![c].pc = "blocked"]
    /\ UNCHANGED <<agent, mcp_client, loop, servers, store, sys_stderr,
                   chatbot, thread_state, nextId, turns, toolCalls, inits,
                   init_result, produced>>
    /\ UNCHANGED server

\* ---------------------------------------------------------- app.py
\* uuid.uuid4(): a value no earlier call returned
uuid4 == nextId

\* the messages a user submits
Messages == {"q", "", " "}

\* the worker slot after respond returned `"", history, thread_id` at its
\* blank-message check
BlankReturned == [IdleCall EXCEPT !.kind = "blank"]

\* respond: a blank message returns at once, handing back the history and
\* the thread id it was given; otherwise a thread id is minted when the
\* session has none and get_response is called with the display history
respond(c, message) ==
    /\ FreeSlot(c)
    /\ message \in Messages
    /\ turns < MaxTurns
    /\ IF Blank(message)
       THEN /\ calls' = [calls EXCEPT ![c] = BlankReturned]
            /\ turns' = turns + 1
            /\ UNCHANGED <<agent, mcp_client, loop, servers, store,
                           sys_stderr, chatbot, thread_state, nextId,
                           toolCalls, inits, init_result, produced>>
       ELSE LET tid == IF thread_state = 0 THEN uuid4 ELSE thread_state
            IN  /\ tid <= MaxThreads
                /\ nextId' = IF thread_state = 0 THEN nextId + 1 ELSE nextId
                /\ get_response(c, "respond", message, History(chatbot), tid)
                /\ UNCHANGED <<agent, mcp_client, servers, chatbot,
                               thread_state, toolCalls, inits, init_result>>
    /\ UNCHANGED server

\* as HistoryAfter, with the user entry left out
HistoryAfter_NoUserEntry(call) ==
    call.history.items \o
        << Entry("assistant", extract_images_from_text(call.result),
                 call.thread_id) >>

\* the display history respond returns: the history it was given plus the
\* user entry and the processed bot message
HistoryAfter(call) ==
    call.history.items \o
        << Entry("user", call.message, call.thread_id),
           Entry("assistant", extract_images_from_text(call.result),
                 call.thread_id) >>

\* as RespondReturn, with the thread id respond used not handed back to the
\* thread_id state
RespondReturn_DropsThreadId(c) ==
    /\ calls[c].pc = "done"
    /\ calls[c].kind = "respond"
    /\ calls' = [calls EXCEPT ![c] = IdleCall]
    /\ IF calls[c].result.kind = "raised"
       THEN UNCHANGED <<chatbot, thread_state>>
       ELSE /\ chatbot' = HistoryAfter(calls[c])
            /\ thread_state' = thread_state
    /\ UNCHANGED <<agent, mcp_client, loop, servers, store, sys_stderr,
                   nextId, turns, toolCalls, inits, init_result, produced>>
    /\ UNCHANGED server

\* get_response returned to respond, whose outputs go to the chatbot and
\* the thread_id state; an exception leaves both outputs unwritten
RespondReturn(c) ==
    /\ calls[c].pc = "done"
    /\ calls[c].kind = "respond"
    /\ calls' = [calls EXCEPT ![c] = IdleCall]
    /\ IF calls[c].result.kind = "raised"
       THEN UNCHANGED <<chatbot, thread_state>>
       ELSE /\ chatbot' = HistoryAfter(calls[c])
            /\ thread_state' = calls[c].thread_id
    /\ UNCHANGED <<agent, mcp_client, loop, servers, store, sys_stderr,
                   nextId, turns, toolCalls, inits, init_result, produced>>
    /\ UNCHANGED server

\* as clear_chat, with the display history kept
clear_chat_KeepHistory ==
    /\ uuid4 <= MaxThreads
    /\ thread_state' = uuid4
    /\ nextId' = nextId + 1
    /\ UNCHANGED <<agent, mcp_client, loop, servers, store, sys_stderr,
                   chatbot, calls, turns, toolCalls, inits, init_result,
                   produced>>
    /\ UNCHANGED server

\* as clear_chat, with the thread that is left behind deleted from the
\* conversation store
clear_chat_DeletesThread ==
    /\ uuid4 <= MaxThreads
    /\ chatbot' = <<>>
    /\ thread_state' = uuid4
    /\ nextId' = nextId + 1
    /\ store' = [t \in ThreadIds |->
                   IF t = thread_state THEN <<>> ELSE store[t]]
    /\ UNCHANGED <<agent, mcp_client, loop, servers, sys_stderr, calls,
                   turns, toolCalls, inits, init_result, produced>>
    /\ UNCHANGED server

\* clear_chat: empty display history and a fresh thread id
clear_chat ==
    /\ uuid4 <= MaxThreads
    /\ chatbot' = <<>>
    /\ thread_state' = uuid4
    /\ nextId' = nextId + 1
    /\ UNCHANGED <<agent, mcp_client, loop, servers, store, sys_stderr,
                   calls, turns, toolCalls, inits, init_result, produced>>
    /\ UNCHANGED server

\* ------------------------------------------------- server.py
\* the environment variables the capability functions read
Credentials ==
    {"GEMINI_API_KEY", "IMGBB_API_KEY", "BYTESCALE_ACCOUNT_ID",
     "BYTESCALE_API_KEY"}

PosterUrl == "https://i.ibb.co/poster.png"
PodcastUrl == "https://upcdn.io/podcast.wav"
\* Python None, returned where a str was declared
NoneValue == NonText("None")

\* f"Error in paper_to_poster: {str(e)}" and f"Error generating podcast:
\* {str(e)}": the text the outer except clause returns
PosterError(e) == Text("Error in paper_to_poster: " \o e)
PodcastError(e) == Text("Error generating podcast: " \o e)

\* the step the function was at ended with outcome o, and the function
\* returns res / goes on to its next step; steps lists the steps done
Returns(o, res) ==
    /\ server' = [server EXCEPT !.pc = "returned", !.result = res,
                                !.steps = Append(@, server.pc),
                                !.outcome = o]
    /\ UNCHANGED agentVars
Goes(o, pc) ==
    /\ server' = [server EXCEPT !.pc = pc,
                                !.steps = Append(@, server.pc),
                                !.outcome = o]
    /\ UNCHANGED agentVars

\* the MCP server calls capability function fn in a process whose
\* environment holds the credentials env
Invoke(fn, env) ==
    /\ server.pc = "idle"
    /\ fn \in {"paper_to_poster", "paper_to_podcast"}
    /\ env \in SUBSET Credentials
    /\ server' = [ServerIdle EXCEPT !.fn = fn, !.pc = "entered",
                                    !.env = env]
    /\ UNCHANGED agentVars

\* os.getenv('SERPAPI_API_KEY'): unset, empty, blank, or a key
ApiKeys == {"None", "", "  ", "key"}

\* the values of max_results: the schema of the tool admits every integer
MaxResultsValues == (0 - MaxOrganic) .. MaxOrganic

\* the records of the search service's answer, best first
Organic == [i \in 1..MaxOrganic |-> "paper" \o ToString(i)]

\* what `requests.request` gives back: an exception, or a response with a
\* status and a JSON body that has an error field, an organic list, or
\* neither
SearchResponses ==
    {[status |-> st, error |-> er, has_organic |-> ho, organic |-> og] :
        st \in {"200", "500", "raise"}, er \in BOOLEAN, ho \in BOOLEAN,
        og \in {SubSeq(Organic, 1, n) : n \in 0..MaxOrganic}}

\* the MCP server calls retrieve_related_papers(topic, max_results) in a
\* process whose environment gives SERPAPI_API_KEY the value key
InvokeRetrieve(key, max_results) ==
    /\ server.pc = "idle"
    /\ key \in ApiKeys
    /\ max_results \in MaxResultsValues
    /\ server' = [ServerIdle EXCEPT !.fn = "retrieve_related_papers",
                                    !.pc = "entered", !.api_key = key,
                                    !.max_results = max_results]
    /\ UNCHANGED agentVars

\* `not api_key or api_key.strip() == ''`
KeyMissing(key) == key \in {"None", "", "  "}

\* retrieve_related_papers: the API key check (the text it returns is
\* given without its leading mark)
RetrieveStart ==
    /\ server.fn = "retrieve_related_papers"
    /\ server.pc = "entered"
    /\ IF KeyMissing(server.api_key)
       THEN Returns("missing credential", Text("Error: SERPAPI_API_KEY is empty or not set in .env file"))
       ELSE Goes("ok", "request")

\* seq[:k] as Python computes it: the first k items, or, for a negative
\* k, all but the last -k
Slice(seq, k) ==
    LET stop == IF k >= 0 THEN k ELSE Len(seq) + k
    IN  SubSeq(seq, 1, IF stop < 0 THEN 0
                       ELSE IF stop > Len(seq) THEN Len(seq) ELSE stop)

\* paper_info, with the title standing for all the fields of a record
PaperInfo(p) == "Title: " \o p

\* "\n\n".join(papers)
RECURSIVE Join(_)
Join(papers) ==
    IF Len(papers) = 0 THEN ""
    ELSE IF Len(papers) = 1 THEN papers[1]
    ELSE papers[1] \o "\n\n" \o Join(Tail(papers))

\* retrieve_related_papers: the POST request and what is made of its
\* response: the status check, the error field check, the loop over
\* results["organic"][:max_results], and the return
RetrieveRequest(resp) ==
    /\ server.fn = "retrieve_related_papers"
    /\ server.pc = "request"
    /\ resp \in SearchResponses
    /\ IF resp.status = "raise"
       THEN Returns("raise", Text("Error retrieving papers with SerpApi: connection failed"))
       ELSE IF resp.status # "200"
       THEN Returns("non-200", Text("SerpApi Error (HTTP " \o resp.status \o "): body"))
       ELSE IF resp.error
       THEN Returns("error field", Text("SerpApi Error: message"))
       ELSE LET papers ==
                    IF resp.has_organic
                    THEN [i \in DOMAIN Slice(resp.organic, server.max_results)
                            |-> PaperInfo(Slice(resp.organic,
                                                server.max_results)[i])]
                    ELSE << >>
            IN  IF papers = << >>
                THEN Returns("no papers", Text("No research papers found for topic: topic"))
                ELSE /\ server' = [server EXCEPT
                                      !.pc = "returned",
                                      !.result = Text(Join(papers)),
                                      !.steps = Append(@, server.pc),
                                      !.outcome = "papers",
                                      !.papers = papers]
                     /\ UNCHANGED agentVars

\* the function's result has gone back to the MCP client
ServerReturn ==
    /\ server.pc = "returned"
    /\ server' = ServerIdle
    /\ UNCHANGED agentVars

\* paper_to_poster: the IMGBB_API_KEY check, then genai.Client, which
\* raises when it is given no API key
PosterStart ==
    /\ server.fn = "paper_to_poster"
    /\ server.pc = "entered"
    /\ IF "IMGBB_API_KEY" \notin server.env
       THEN Returns("missing credential", Text("Error: IMGBB_API_KEY not found in environment variables. Please get a free key from api.imgbb.com"))
       ELSE IF "GEMINI_API_KEY" \notin server.env
       THEN Returns("raise", PosterError("missing api key"))
       ELSE Goes("ok", "download")

\* paper_to_podcast: genai.Client, then the Bytescale credentials check
PodcastStart ==
    /\ server.fn = "paper_to_podcast"
    /\ server.pc = "entered"
    /\ IF "GEMINI_API_KEY" \notin server.env
       THEN Returns("raise", PodcastError("missing api key"))
       ELSE IF {"BYTESCALE_ACCOUNT_ID", "BYTESCALE_API_KEY"}
                   \subseteq server.env
       THEN Goes("ok", "download")
       ELSE Returns("missing credential", Text("Error: BYTESCALE_ACCOUNT_ID or BYTESCALE_API_KEY not found in environment variables."))

\* the text of any exception raised inside the function's outer try
Caught(e) ==
    IF server.fn = "paper_to_poster" THEN PosterError(e) ELSE PodcastError(e)

\* as Download, with the request made again after an exception
Download_Retries(o) ==
    /\ server.pc = "download"
    /\ o \in {"200", "404", "raise"}
    /\ IF o = "raise" THEN Goes(o, "download")
       ELSE IF o # "200" THEN Returns(o, Text("Error downloading PDF: HTTP " \o o))
       ELSE Goes(o, "upload")

\* httpx.get(paper_url, follow_redirects=True) and the status check
DownloadOutcomes == {"200", "404", "raise"}
Download(o) ==
    /\ server.pc = "download"
    /\ o \in DownloadOutcomes
    /\ IF o = "raise" THEN Returns(o, Caught("download failed"))
       ELSE IF o # "200" THEN Returns(o, Text("Error downloading PDF: HTTP " \o o))
       ELSE Goes(o, "upload")

\* client.files.upload of the PDF
UploadOutcomes == {"ok", "raise"}
UploadPdf(o) ==
    /\ server.pc = "upload"
    /\ o \in UploadOutcomes
    /\ IF o = "raise" THEN Returns(o, Caught("upload failed"))
       ELSE Goes(o, IF server.fn = "paper_to_poster" THEN "image" ELSE "script")

\* what a generate_content_stream loop ends with: content, nothing, or an
\* exception
GenerateOutcomes == {"content", "nothing", "raise"}

\* paper_to_poster: the image stream and `if not generated_image_b64`
PosterGenerate(o) ==
    /\ server.pc = "image"
    /\ o \in GenerateOutcomes
    /\ IF o = "raise" THEN Returns(o, Caught("generation failed"))
       ELSE IF o = "nothing"
       THEN Returns(o, Text("Error: No poster image was generated by the model."))
       ELSE Goes(o, "publish")

\* paper_to_podcast: the script stream and `if not podcast_script`
PodcastScript(o) ==
    /\ server.pc = "script"
    /\ o \in GenerateOutcomes
    /\ IF o = "raise" THEN Returns(o, Caught("generation failed"))
       ELSE IF o = "nothing"
       THEN Returns(o, Text("Error: Failed to generate podcast script."))
       ELSE Goes(o, "audio")

\* paper_to_podcast: the text-to-speech stream and `if not audio_data`
PodcastAudio(o) ==
    /\ server.pc = "audio"
    /\ o \in GenerateOutcomes
    /\ IF o = "raise" THEN Returns(o, Caught("generation failed"))
       ELSE IF o = "nothing"
       THEN Returns(o, Text("Error: Failed to generate audio from podcast script."))
       ELSE Goes(o, "publish")

\* how the upload of the generated file ends: status 200 with or without
\* the URL field in the JSON body, another status, or an exception
PublishOutcomes == {"200 url", "200 no url", "500", "raise"}

\* paper_to_poster: requests.post to ImgBB; result['data']['url'] raises
\* KeyError on a body without the field, which the outer except catches
PosterPublish(o) ==
    /\ server.fn = "paper_to_poster"
    /\ server.pc = "publish"
    /\ o \in PublishOutcomes
    /\ IF o = "raise" THEN Returns(o, PosterError("upload failed"))
       ELSE IF o = "200 url" THEN Returns(o, Text(PosterUrl))
       ELSE IF o = "200 no url" THEN Returns(o, PosterError("'data'"))
       ELSE Returns(o, Text("Error uploading to ImgBB: 500 - body"))

\* paper_to_podcast: httpx.post to Bytescale inside its own try;
\* result.get('fileUrl') is None on a body without the field, and that is
\* what is returned
PodcastPublish(o) ==
    /\ server.fn = "paper_to_podcast"
    /\ server.pc = "publish"
    /\ o \in PublishOutcomes
    /\ IF o = "raise"
       THEN Returns(o, Text("Error during audio upload: upload failed"))
       ELSE IF o = "200 url" THEN Returns(o, Text(PodcastUrl))
       ELSE IF o = "200 no url" THEN Returns(o, NoneValue)
       ELSE Returns(o, Text("Error uploading to Bytescale: 500 - body"))

\* ------------------------------------------------------------- Next
\* the steps of the program when the front-end workers in W take calls
\* and the search provider lists one of L
Steps(W, L) ==
    \/ \E o \in InitOutcomes(ShippedServers), sl \in L :
          initialize_agent(o, sl)
    \/ \E c \in W, h \in ApiHistories(ApiThread) : ApiCall(c, h)
    \/ \E c \in W : ApiReturn(c)
    \/ \E c \in W, m \in Messages : respond(c, m)
    \/ \E c \in W : RespondReturn(c)
    \/ clear_chat
    \/ \E c \in W, x \in FinalContents : ModelFinal(c, x)
    \/ \E c \in W : ModelToolCall(c)
    \/ \E c \in W, x \in ToolContents : ToolResult(c, x)
    \/ \E c \in W : ToolRaisesHandled(c)
    \/ \E c \in W : StreamRaises(c)
    \/ \E c \in W : ToolNeverReturns(c)

\* one front-end call at a time (the queue's default for one listener),
\* the providers' names disjoint
Next == Steps({1}, DisjointListings)

\* one front-end call at a time, every listing of the search provider
RegistryNext == Steps({1}, SearchListings)

\* the submit and click listeners run respond on worker threads at the
\* same time, and each drives the shared loop through the patched
\* run_until_complete: the calls interleave at their awaits
ConcNext == Steps(Slots, DisjointListings)

\* the steps of the research server serving one invocation at a time
ServerNext ==
    \/ \E fn \in {"paper_to_poster", "paper_to_podcast"},
          env \in SUBSET Credentials : Invoke(fn, env)
    \/ \E key \in ApiKeys, max_results \in MaxResultsValues :
          InvokeRetrieve(key, max_results)
    \/ RetrieveStart
    \/ \E resp \in SearchResponses : RetrieveRequest(resp)
    \/ ServerReturn
    \/ PosterStart
    \/ PodcastStart
    \/ \E o \in DownloadOutcomes : Download(o)
    \/ \E o \in UploadOutcomes : UploadPdf(o)
    \/ \E o \in GenerateOutcomes : PosterGenerate(o)
    \/ \E o \in GenerateOutcomes : PodcastScript(o)
    \/ \E o \in GenerateOutcomes : PodcastAudio(o)
    \/ \E o \in PublishOutcomes : PosterPublish(o)
    \/ \E o \in PublishOutcomes : PodcastPublish(o)

Spec == Init /\ [][Next]_vars

RegistrySpec == Init /\ [][RegistryNext]_vars

ServerSpec == Init /\ [][ServerNext]_vars

ConcSpec == Init /\ [][ConcNext]_vars

\* the event loop resumes a suspended get_response_async whenever the
\* event it awaits has arrived, and a finished call returns to its caller
Resumed(c) ==
    \/ \E x \in FinalContents : ModelFinal(c, x)
    \/ ModelToolCall(c)
    \/ \E x \in ToolContents : ToolResult(c, x)
    \/ ToolRaisesHandled(c)
    \/ StreamRaises(c)

\* Spec with the loop's scheduling: a call that can be resumed is resumed
FairSpec == Spec /\ WF_vars(Resumed(1))


\* =============================================================== claims
Busy(call) == call.pc \in {"model", "tools", "blocked"}
\* the thread ids the chat UI mints
UiThreads == 1..MaxThreads
\* the step limit K of the turn executor
StepLimit == 1
\* model-step <-> tools round trips a call has begun
RoundTripsBegun(call) ==
    IF call.pc = "tools" THEN (call.step_count + 1) \div 2
    ELSE call.step_count \div 2

\* C1: every get_response call, whatever its message, history and thread
\* id and whatever fails inside it, returns a text string; no exception
\* leaves get_response.
C1_AlwaysReturnsText ==
    \A c \in Slots : calls[c].pc = "done" => calls[c].result.kind = "text"

\* C2: a get_response call made while agent is None returns the fixed
\* text "Error: Agent not initialized" at once: no stream is started, the
\* history is not converted (a malformed one does not matter), and the
\* conversation store and sys.stderr stay as they are.
C2_UninitializedReturnsFixedText ==
    [][ \A c \in Slots :
          (calls[c].pc = "idle" /\ calls'[c].pc # "idle" /\ ~agent.built)
          => /\ calls'[c].pc = "done"
             /\ calls'[c].result = Text(NotInitialized)
             /\ calls'[c].agentCalls = 0
             /\ calls'[c].ctx = <<>>
             /\ store' = store
             /\ produced' = produced
             /\ sys_stderr' = sys_stderr ]_vars

\* C2 witness: a call with a history that is no list has returned the
\* fixed text because the agent was not built.
C2_Witness ==
    \E c \in Slots :
        /\ calls[c].pc = "done"
        /\ ~agent.built
        /\ ~calls[c].history.list
        /\ calls[c].result = Text(NotInitialized)

\* C3: initialize_agent returns and never raises; a failed build gives
\* (False, diagnostic text) and leaves the agent unset; the front-end
\* still takes calls, and while the agent is unset every get_response
\* returns the fixed error text and no stream is running.
C3_InitFailureIsReported ==
    /\ inits => init_result.kind = "returned"
    /\ (inits /\ ~init_result.ok) =>
          /\ ~agent.built
          /\ init_result.message # "Agent initialized successfully!"
    /\ (inits /\ init_result.ok) => agent.built
    /\ ~agent.built =>
          \A c \in Slots :
              /\ ~Busy(calls[c])
              /\ calls[c].pc = "done" =>
                    calls[c].result = Text(NotInitialized)

\* C3 witness: after a failed initialize_agent the chat UI answered a
\* respond call with the fixed text.
C3_Witness ==
    /\ inits
    /\ ~init_result.ok
    /\ \E c \in Slots :
          /\ calls[c].pc = "done"
          /\ calls[c].kind = "respond"
          /\ calls[c].result = Text(NotInitialized)

\* C4: when a capability invocation in a turn fails, the turn is not
\* aborted by it: the call does not end with the capability's exception
\* as its error, and it returns non-empty text.
C4_CapabilityFailureDoesNotAbort ==
    \A c \in Slots :
        (calls[c].pc = "done" /\ calls[c].tool_failed)
        => /\ calls[c].result.kind = "text"
           /\ calls[c].result.val # ""
           /\ calls[c].result.val # ErrorText("ToolException")

\* C5: a turn never begins more than StepLimit model-step <-> tools round
\* trips: a further invocation request ends it with the step-limit text.
C5_StepLimitEnforced ==
    \A c \in Slots : RoundTripsBegun(calls[c]) <= StepLimit

\* C6: the give-up text is returned only after the request was tried a
\* second time through a single-shot call to the agent.
C6_FallbackBeforeGiveUp ==
    \A c \in Slots :
        (calls[c].pc = "done" /\ calls[c].result = Text(NoResponse))
        => calls[c].agentCalls >= 2

\* C7: every message stored under a thread id, and every message in the
\* context a turn on that thread gives the model, was first appended
\* under that same thread id.
C7_ThreadIsolation ==
    /\ \A t \in ThreadIds :
          \A i \in 1..Len(store[t]) : store[t][i].th = t
    /\ \A c \in Slots :
          calls[c].pc # "idle" =>
              \A i \in 1..Len(calls[c].ctx) :
                  calls[c].ctx[i].th = calls[c].thread_id

\* C7 witness: two different thread ids minted by the chat UI both hold
\* stored messages.
C7_Witness ==
    \E t1, t2 \in UiThreads :
        t1 # t2 /\ store[t1] # <<>> /\ store[t2] # <<>>

\* C8: the stored history of a thread the chat UI drives is exactly the
\* sequence of messages its turns produced, each once and in order.
C8_StoredIsProduced ==
    \A t \in UiThreads : store[t] = produced[t]

\* C9: once a thread is known to the store, the context a get_response
\* call gives the model (and saves) is the same for every history
\* argument.
C9_HistoryIgnoredForKnownThread ==
    \A t \in ThreadIds :
        store[t] # <<>> =>
            \A h \in {x \in ApiHistories(t) : ~ConvertRaises(x)} :
                ContextFor(store[t], "q", h, t)
                    = ContextFor(store[t], "q", History(<<>>), t)

\* C10: at most one turn per thread id is in flight at any time.
C10_OneTurnPerThread ==
    \A c, d \in Slots :
        (c # d /\ Busy(calls[c]) /\ Busy(calls[d]))
        => calls[c].thread_id # calls[d].thread_id

\* C11: every started get_response call eventually returns: a capability
\* invocation that never returns is cut off by a timeout and the turn goes
\* on to its end.
C11_EveryCallReturns ==
    \A c \in Slots : Busy(calls[c]) ~> (calls[c].pc = "done")

\* C12: with no provider configured, initialize_agent does not fail for
\* want of providers and contacts none, the agent is built over an empty
\* capability set, no capability is ever invoked, and every get_response
\* call that ran on that agent returns non-empty text.
C12_NoProvidersNotFatal ==
    servers = {} =>
        /\ mcp_client = "None"
        /\ toolCalls = 0
        /\ inits => init_result # InitReturn("mcp_error")
        /\ agent.built => agent.tools = {}
        /\ \A c \in Slots :
              (calls[c].pc = "done" /\ calls[c].agentCalls > 0)
              => /\ calls[c].result.kind = "text"
                 /\ calls[c].result.val # ""
                 /\ \A i \in 1..Len(calls[c].ctx) :
                       calls[c].ctx[i].role # "tool"

\* C13: when get_tools fails because one of several configured providers
\* could not be reached, initialize_agent still builds the agent, with the
\* capabilities of a provider that did answer registered.
C13_PartialFailureTolerated ==
    (inits /\ init_result = InitReturn("mcp_error"))
    => /\ agent.built
       /\ \E p \in servers : \E t \in agent.tools : t.provider = p

\* C18: the registry of a built agent never holds two capabilities with
\* the same name: two providers offering the same name make initialization
\* fail.
C18_NoNameCollision ==
    agent.built =>
        \A a, b \in agent.tools : a.name = b.name => a = b

\* C14: every get_response call runs its coroutine on the shared loop and
\* the loop is never replaced while or after a call used it; once
\* initialize_agent has run, that loop is the one the agent was built on.
C14_OneSharedLoop ==
    /\ \A c \in Slots : calls[c].pc # "idle" => calls[c].on = loop
    /\ agent.built => agent.on = loop

\* C14 witness: a call made from a worker thread after initialization ran
\* to its end on the loop the agent was built on, which is not the loop
\* of the calling thread.
C14_Witness ==
    \E c \in Slots :
        /\ agent.built
        /\ calls[c].pc = "done"
        /\ calls[c].agentCalls > 0
        /\ calls[c].on = agent.on
        /\ calls[c].on # get_or_create_event_loop(Thread(c))

\* C15: respond never starts a get_response call for an empty or
\* whitespace-only message, and a respond that returned at its blank check
\* left the display history, the thread id, the id generator, the
\* conversation store and sys.stderr exactly as they were.
C15_BlankIsNoOp ==
    [][ \A c \in Slots :
          /\ (calls[c].pc = "idle" /\ calls'[c].kind = "respond")
             => calls'[c].message \notin {"", " "}
          /\ (calls'[c] = BlankReturned /\ calls[c] # BlankReturned)
             => /\ chatbot' = chatbot
                /\ thread_state' = thread_state
                /\ nextId' = nextId
                /\ store' = store
                /\ sys_stderr' = sys_stderr ]_vars

\* C15 witness: a blank message was submitted in a session that already
\* has a thread id and a display history.
C15_Witness ==
    /\ calls[1] = BlankReturned
    /\ thread_state # 0
    /\ chatbot # <<>>

\* C16: a clear_chat step (the only step that mints a thread id without
\* starting a call) empties the display history, hands out a thread id
\* that no stored thread, no running call and the session did not use
\* before, and leaves the conversation store as it was; and no step of
\* any operation removes a stored thread.
C16_ClearChatKeepsStore ==
    [][ /\ (nextId' # nextId /\ calls' = calls)
           => /\ chatbot' = <<>>
              /\ store' = store
              /\ \A t \in ThreadIds :
                    (\/ t = thread_state
                     \/ store[t] # <<>>
                     \/ \E c \in Slots : calls[c].thread_id = t)
                    => thread_state' # t
        /\ \A t \in ThreadIds : store[t] # <<>> => store'[t] # <<>> ]_vars

\* C16 witness: after clear_chat the session has an empty display history
\* and a new thread id with nothing stored, while the thread it left
\* behind still holds its messages.
C16_Witness ==
    /\ chatbot = <<>>
    /\ thread_state \in UiThreads
    /\ store[thread_state] = <<>>
    /\ \E t \in UiThreads : t < thread_state /\ store[t] # <<>>

\* whether a call is running on thread t
InFlight(t) == \E c \in Slots : Busy(calls[c]) /\ calls[c].thread_id = t

\* C17: in the stored history of every thread on which no call is running,
\* each tool message answers an invocation request carried by an earlier
\* assistant message of the thread, and each invocation request is
\* answered by exactly one later tool message.
C17_RequestsAndResultsPair ==
    \A t \in ThreadIds :
        ~InFlight(t) =>
            \A i \in 1..Len(store[t]) :
                LET m == store[t][i]
                IN  /\ m.role = "tool" =>
                          \E j \in 1..(i - 1) :
                              /\ store[t][j].role = "assistant"
                              /\ store[t][j].tc = m.tc
                    /\ (m.role = "assistant" /\ m.tc # 0) =>
                          Cardinality({k \in (i + 1)..Len(store[t]) :
                                          /\ store[t][k].role = "tool"
                                          /\ store[t][k].tc = m.tc}) = 1

\* C19: whatever happens in any of their steps, paper_to_poster and
\* paper_to_podcast return a text string, a public URL or an error text;
\* they never raise and never return a value that is no text.
C19_ServerToolsReturnText ==
    server.pc = "returned" =>
        /\ server.result.kind = "text"
        /\ server.result.val # ""

\* C20: no step of a get_response call (its start, its streamed steps, its
\* return, whatever the outcome) changes the agent with its registered
\* tools, the provider client, the provider configuration or the result
\* of initialization, and it changes the shared loop only when the loop
\* was unset.
C20_CapabilitySetFixed ==
    [][ calls' # calls
        => /\ agent' = agent
           /\ mcp_client' = mcp_client
           /\ servers' = servers
           /\ inits' = inits
           /\ init_result' = init_result
           /\ (loop' = loop \/ loop = "None") ]_vars

\* C20 witness: a call on the built agent ended with a capability's
\* exception, and the agent, its tools and the provider client are there.
C20_Witness ==
    \E c \in Slots :
        /\ calls[c].pc = "done"
        /\ calls[c].result = Text(ErrorText("ToolException"))
        /\ agent.built
        /\ agent.tools # {}
        /\ mcp_client = "client"
        /\ loop = agent.on

\* the last message of the run of a call
LastMessage(call) == call.ctx[Len(call.ctx)]
\* the call's stream ended normally: with an assistant message that
\* carries no invocation request
EndedNormally(call) ==
    /\ call.pc = "done"
    /\ call.agentCalls > 0
    /\ LastMessage(call).role = "assistant"
    /\ LastMessage(call).tc = 0

\* C21 (as stated): for a turn that ends normally the value get_response
\* returns is the content of the model's final assistant message.
C21_ReturnsFinalContent ==
    \A c \in Slots :
        EndedNormally(calls[c])
        => calls[c].result.val = LastMessage(calls[c]).content

\* C21 (amended): for a turn that ends normally the value get_response
\* returns is the content of the model's final assistant message when
\* that content is not empty and the fixed text "No response generated"
\* when it is empty; it is never the content of a tool message or of an
\* assistant message that carries an invocation request.
C21_ReturnsFinalContentOrFixedText ==
    \A c \in Slots :
        EndedNormally(calls[c])
        => /\ calls[c].result.val =
                 IF LastMessage(calls[c]).content = ""
                 THEN "No response generated"
                 ELSE LastMessage(calls[c]).content
           /\ calls[c].result.val \notin {"thought", "result",
                                          "Error: rate limited"}

\* C21 witness: a turn with a capability round trip ended normally and
\* returned the final answer.
C21_Witness ==
    \E c \in Slots :
        /\ EndedNormally(calls[c])
        /\ calls[c].step_count >= 3
        /\ calls[c].result = Text("answer")

\* C22: on every path on which get_response returns a value (agent
\* absent, normal completion, final message with empty or structured
\* content, exception in the stream), that value is a non-empty text
\* string.
C22_ReturnsNonEmptyText ==
    \A c \in Slots :
        (calls[c].pc = "done" /\ calls[c].result.kind # "raised")
        => /\ calls[c].result.kind = "text"
           /\ calls[c].result.val # ""

\* C23: initialize_agent resolves the credential, then constructs the
\* model client, then contacts the providers, then builds the agent: a
\* failure of one step leaves the effects of the later steps undone.  With
\* the credential missing no provider client exists, the agent is unset
\* and the result is (False, text naming GOOGLE_API_KEY).
C23_InitStepOrder ==
    inits =>
        /\ init_result.message =
              "Failed to initialize agent: GOOGLE_API_KEY not found. Please set it in your .env file."
           => /\ ~init_result.ok
              /\ mcp_client = "None"
              /\ ~agent.built
        /\ init_result.message = "Failed to initialize agent: model_error"
           => (mcp_client = "None" /\ ~agent.built)
        /\ init_result.message = "Failed to initialize agent: mcp_error"
           => (mcp_client = "client" /\ ~agent.built)
        /\ init_result.message = "Failed to initialize agent: agent_error"
           => ((servers # {} <=> mcp_client = "client") /\ ~agent.built)
        /\ init_result.ok
           => ((servers # {} <=> mcp_client = "client") /\ agent.built)
        /\ init_result.message \in
              {"Agent initialized successfully!",
               "Failed to initialize agent: GOOGLE_API_KEY not found. Please set it in your .env file.",
               "Failed to initialize agent: model_error",
               "Failed to initialize agent: mcp_error",
               "Failed to initialize agent: agent_error"}

\* C23 witness: with both providers configured, initialize_agent failed on
\* the missing credential and no provider client was made.
C23_Witness ==
    /\ inits
    /\ servers = ShippedServers
    /\ init_result.message =
          "Failed to initialize agent: GOOGLE_API_KEY not found. Please set it in your .env file."
    /\ mcp_client = "None"
    /\ ~agent.built

\* whether a display history has even length and alternates user and
\* assistant entries
Alternates(h) ==
    /\ Len(h) % 2 = 0
    /\ \A i \in 1..Len(h) :
          h[i].role = IF i % 2 = 1 THEN "user" ELSE "assistant"

\* C24: after every step the display history has even length and
\* alternates user and assistant entries, and the step in which a respond
\* call with a non-blank message hands back its outputs makes the display
\* history the history the call was given plus one user entry with the
\* message and one assistant entry, also when get_response returned an
\* error text.
C24_DisplayHistoryAlternates ==
    [][ /\ Alternates(chatbot')
        /\ \A c \in Slots :
              (calls[c].pc = "done" /\ calls[c].kind = "respond"
                  /\ calls'[c].pc = "idle")
              => /\ Len(chatbot') = Len(calls[c].history.items) + 2
                 /\ SubSeq(chatbot', 1, Len(chatbot') - 2)
                       = calls[c].history.items
                 /\ chatbot'[Len(chatbot') - 1].role = "user"
                 /\ chatbot'[Len(chatbot') - 1].content = calls[c].message
                 /\ chatbot'[Len(chatbot')].role = "assistant" ]_vars

\* C24 witness: the display history holds two exchanges, the second of
\* them answered with the error text of a failed capability.
C24_Witness ==
    /\ Len(chatbot) = 4
    /\ chatbot[4].content = ErrorText("ToolException")

\* C25: a respond call with a non-blank message passes a non-empty thread
\* id to get_response; it mints one only when the thread_id state is empty
\* and otherwise passes the state's value; when the display history is not
\* empty (an earlier respond returned and no clear_chat came after it) the
\* id passed is the one the last exchange of the display history was made
\* under; and the step in which respond hands back its outputs leaves the
\* id it used in the thread_id state.
C25_OneThreadPerSession ==
    [][ \A c \in Slots :
          /\ (calls[c].pc = "idle" /\ calls'[c].kind = "respond")
             => /\ calls'[c].thread_id # 0
                /\ (nextId' # nextId) => (thread_state = 0)
                /\ (thread_state # 0)
                   => (calls'[c].thread_id = thread_state)
                /\ (chatbot # << >>)
                   => (calls'[c].thread_id = chatbot[Len(chatbot)].th)
          /\ (calls[c].pc = "done" /\ calls[c].kind = "respond"
                 /\ calls'[c].pc = "idle")
             => (thread_state' = calls[c].thread_id) ]_vars

\* C25 witness: a second respond call is in progress, under the one thread
\* id minted so far, which is the id of the exchange already displayed.
C25_Witness ==
    \E c \in Slots :
        /\ calls[c].kind = "respond"
        /\ calls[c].pc = "model"
        /\ Len(chatbot) = 2
        /\ calls[c].thread_id = chatbot[2].th
        /\ nextId = 2

\* the steps of a capability function in the order of its code
StepOrder(fn) ==
    IF fn = "paper_to_poster"
    THEN << "entered", "download", "upload", "image", "publish" >>
    ELSE << "entered", "download", "upload", "script", "audio", "publish" >>

\* the credentials of the service the function uploads its result to
UploadCredentials(fn) ==
    IF fn = "paper_to_poster" THEN {"IMGBB_API_KEY"}
    ELSE {"BYTESCALE_ACCOUNT_ID", "BYTESCALE_API_KEY"}

\* the outcomes with which a step fails
FailureOutcomes == {"missing credential", "raise", "404", "nothing", "500"}

\* C26: in paper_to_poster and paper_to_podcast the steps done so far are
\* an initial part of credential check, download, upload of the document,
\* generation, upload of the result, each once; the step in progress is
\* the next of that order; a step that failed has ended the call, with a
\* text that is not a link; and when a credential of the upload service
\* is missing the call ends at the credential check, no download begun.
C26_StepsInSequence ==
    server.fn \in {"paper_to_poster", "paper_to_podcast"} =>
        LET order == StepOrder(server.fn)
            n == Len(server.steps)
        IN  /\ n <= Len(order)
            /\ server.steps = SubSeq(order, 1, n)
            /\ server.pc # "returned" => server.pc = order[n + 1]
            /\ server.outcome \in FailureOutcomes
               => /\ server.pc = "returned"
                  /\ server.result.kind = "text"
                  /\ server.result.val \notin {PosterUrl, PodcastUrl}
            /\ ~(UploadCredentials(server.fn) \subseteq server.env)
               => /\ n <= 1
                  /\ server.pc \in {"entered", "returned"}

\* C26 witness: paper_to_podcast has returned an error text after its
\* script generation produced nothing, the audio and the upload of the
\* result never begun.
C26_Witness ==
    /\ server.fn = "paper_to_podcast"
    /\ server.pc = "returned"
    /\ server.steps = << "entered", "download", "upload", "script" >>
    /\ server.outcome = "nothing"
    /\ server.result = Text("Error: Failed to generate podcast script.")

\* C27: when retrieve_related_papers has returned, the list of paper
\* records it built is no longer than max_results (and empty when
\* max_results is zero or negative); with the API key
\* missing or blank it returned an error text and made no HTTP request;
\* and after a non-200 response or an error field it returned an error
\* text and built no record.
C27_AtMostMaxResults ==
    (server.fn = "retrieve_related_papers" /\ server.pc = "returned") =>
        /\ Len(server.papers)
              <= (IF server.max_results < 0 THEN 0 ELSE server.max_results)
        /\ server.api_key \in {"None", "", "  "}
           => /\ server.steps = << "entered" >>
              /\ server.result = Text("Error: SERPAPI_API_KEY is empty or not set in .env file")
        /\ server.outcome \in {"non-200", "error field"}
           => /\ server.papers = << >>
              /\ server.result.kind = "text"

\* C28: whenever no get_response_async call is in progress, sys.stderr is
\* the stream it was before the first call started.
C28_StderrRestored ==
    (\A c \in Slots : ~Busy(calls[c])) => (sys_stderr = "orig")

=============================================================================
